---- MODULE Spec2Model ----
(***************************************************************************)
(* Model of ajour/api-test (src/src/main.rs): a one-shot audit that        *)
(* fetches a catalog of packages, extracts their module fingerprints,      *)
(* chunks them into batches, posts every batch to two fingerprint          *)
(* services (Curse and WowUp) concurrently, joins all requests and prints  *)
(* how many packages each service matched.                                 *)
(*                                                                         *)
(* Representation choices:                                                 *)
(*  - a Vec is a sequence; a HashSet is a duplicate-free sequence whose    *)
(*    order carries no meaning (wherever the code iterates a HashSet the   *)
(*    model picks any order);                                              *)
(*  - a future is a record with a tag: Unpolled (created, never polled),   *)
(*    Pending (request sent, suspended at the await of line 138), or the   *)
(*    Result it resolved to (Ok / Err);                                    *)
(*  - stdout is the sequence of lines printed, stderr a bag of lines       *)
(*    (concurrent requests write their error lines in arrival order).      *)
(***************************************************************************)
EXTENDS Naturals, Sequences, FiniteSets, Bags, TLC

(***************************************************************************)
(* Bounds of the model.                                                    *)
(***************************************************************************)
\* catalogs given to the Extractor + Batcher alone (BatcherSpec)
MaxPackages == 3
MaxFiles == 2
MaxModules == 2
\* fingerprints are 1..MaxFingerprint
MaxFingerprint == 2
\* BATCH_SIZE ranges over 1..MaxBatchSize
MaxBatchSize == 2
\* catalogs given to the whole pipeline (Spec)
MaxPipelinePackages == 2
MaxPipelineFiles == 1
MaxPipelineModules == 1
\* package ids in a service's exact matches are 1..MaxId
MaxId == 2
\* a service's response holds at most MaxMatches exact matches
MaxMatches == 1

VARIABLES
    BATCH_SIZE,            \* the constant of line 14, any value in 1..MaxBatchSize
    catalog,               \* what the search endpoint would answer (environment)
    pc,                    \* position of main
    exit,                  \* what main returned: "none" while running, "Ok", "Err"
    packages,              \* line 36
    package_fingerprints,  \* line 40
    batches,               \* line 51
    status,                \* one future per (api, batch index): lines 56-66
    requests,              \* fingerprint requests handed to the client, in order
    completed,             \* apis in the order their inner join_all completed
    responses,             \* line 68
    curse_exact_matches,   \* line 70
    wowup_exact_matches,   \* line 78
    stdout,
    stderr

vars == <<BATCH_SIZE, catalog, pc, exit, packages, package_fingerprints, batches,
          status, requests, completed, responses, curse_exact_matches,
          wowup_exact_matches, stdout, stderr>>

(***************************************************************************)
(* Data                                                                    *)
(***************************************************************************)
SeqsUpTo(S, n) == UNION {[1..k -> S] : k \in 0..n}

Fingerprints == 1..MaxFingerprint

Modules == {[fingerprint |-> f] : f \in Fingerprints}

Files(maxM) == {[modules |-> m] : m \in SeqsUpTo(Modules, maxM)}

Packages(maxF, maxM) == {[latest_files |-> fs] : fs \in SeqsUpTo(Files(maxM), maxF)}

CatalogsOf(maxP, maxF, maxM) == SeqsUpTo(Packages(maxF, maxM), maxP)

Catalogs == CatalogsOf(MaxPackages, MaxFiles, MaxModules)

PipelineCatalogs == CatalogsOf(MaxPipelinePackages, MaxPipelineFiles, MaxPipelineModules)

BatchSizes == 1..MaxBatchSize

ApiChoice == {"Curse", "WowUp"}

\* the order in which line 68 joins the two groups
ApiOrder == <<"Curse", "WowUp">>

Display(api_choice) == IF api_choice = "Curse" THEN "curse_api" ELSE "wowup_api"

fingerprint_url(api_choice) ==
    IF api_choice = "Curse" THEN "CURSE_FINGERPRINT_URL" ELSE "WOWUP_FINGERPRINT_URL"

PackageIds == 1..MaxId

ExactMatch == {[id |-> i] : i \in PackageIds}

\* curse::FingerprintInfo, as far as main reads it
FingerprintInfo == {[exact_matches |-> m] : m \in SeqsUpTo(ExactMatch, MaxMatches)}

Unpolled == [tag |-> "Unpolled"]

Pending == [tag |-> "Pending"]

Ok(info) == [tag |-> "Ok", info |-> info]

Err(e) == [tag |-> "Err", error |-> e]

IsOk(r) == r.tag = "Ok"

IsErr(r) == r.tag = "Err"

Resolved(r) == r.tag \in {"Ok", "Err"}

(***************************************************************************)
(* Iterator helpers                                                        *)
(***************************************************************************)
RECURSIVE Flatten(_)
Flatten(ss) == IF ss = <<>> THEN <<>> ELSE Head(ss) \o Flatten(Tail(ss))

ToSet(s) == {s[i] : i \in DOMAIN s}

\* Vec::push in place of HashSet::insert: repeats are kept
VecPush(h, x) == Append(h, x)

\* collect::<HashSet<_>>(): insert one element after the other
HashSetInsert(h, x) == IF x \in ToSet(h) THEN h ELSE Append(h, x)

RECURSIVE CollectInto(_, _)
CollectInto(h, s) == IF s = <<>> THEN h ELSE CollectInto(HashSetInsert(h, Head(s)), Tail(s))

CollectHashSet(s) == CollectInto(<<>>, s)

\* the orders in which a HashSet may be iterated
IterationOrders(h) == {[i \in DOMAIN h |-> h[f[i]]] : f \in Permutations(DOMAIN h)}

\* slice::chunks_exact(n): the full chunks only, the remainder left out
RECURSIVE ChunksExact(_, _)
ChunksExact(s, n) ==
    IF Len(s) < n THEN <<>>
    ELSE <<SubSeq(s, 1, n)>> \o ChunksExact(SubSeq(s, n + 1, Len(s)), n)

\* chunks of n + 1 elements
RECURSIVE ChunksWider(_, _)
ChunksWider(s, n) ==
    IF s = <<>> THEN <<>>
    ELSE IF Len(s) <= n + 1 THEN <<s>>
    ELSE <<SubSeq(s, 1, n + 1)>> \o ChunksWider(SubSeq(s, n + 2, Len(s)), n)

\* slice::chunks(n): consecutive chunks of n elements, the last one shorter
RECURSIVE Chunks(_, _)
Chunks(s, n) ==
    IF s = <<>> THEN <<>>
    ELSE IF Len(s) <= n THEN <<s>>
    ELSE <<SubSeq(s, 1, n)>> \o Chunks(SubSeq(s, n + 1, Len(s)), n)

(***************************************************************************)
(* Extractor (lines 40-49) and Batcher (lines 51-54)                       *)
(***************************************************************************)
FileFingerprints(f) == [i \in DOMAIN f.modules |-> f.modules[i].fingerprint]

\* the fingerprints of a package collected into a set: repeats are lost
PackageFingerprintsDedup(p) ==
    CollectHashSet(Flatten([i \in DOMAIN p.latest_files |-> FileFingerprints(p.latest_files[i])]))

PackageFingerprints(p) ==
    Flatten([i \in DOMAIN p.latest_files |-> FileFingerprints(p.latest_files[i])])

ExtractFingerprints(ps) == [i \in DOMAIN ps |-> PackageFingerprints(ps[i])]

BatchOf(chunk) == CollectHashSet(Flatten(chunk))

\* a fingerprint is kept only in the first batch that holds it
MakeBatchesGlobalDedup(pf, n) ==
    LET ch == Chunks(pf, n)
        Earlier(k) == ToSet(Flatten(Flatten(SubSeq(ch, 1, k - 1))))
    IN [k \in DOMAIN ch |-> SelectSeq(BatchOf(ch[k]), LAMBDA x : x \notin Earlier(k))]

MakeBatches(pf, n) == LET ch == Chunks(pf, n) IN [k \in DOMAIN ch |-> BatchOf(ch[k])]

(***************************************************************************)
(* Request function get_fingerprint_respose (lines 120-157)                *)
(***************************************************************************)
\* lines 127-130: the body in the shape of the service
RequestBody(api_choice, fingerprints) ==
    IF api_choice = "Curse"
    THEN [json |-> "array", items |-> fingerprints]
    ELSE [json |-> "object", key |-> "fingerprints", items |-> fingerprints]

\* lines 132-136
FingerprintRequest(api_choice, fingerprints) ==
    [uri |-> fingerprint_url(api_choice), method |-> "POST",
     body |-> RequestBody(api_choice, fingerprints)]

\* What the transport can answer to one request: no response at all, a
\* response whose body decodes to a FingerprintInfo, a response whose body
\* does not decode but can be read as text, and a response whose body can
\* neither be decoded nor read (the connection breaks inside the body).
Answers ==
    {[send |-> "Err"]}
    \cup {[send |-> "Ok", json |-> "Ok", info |-> i] : i \in FingerprintInfo}
    \cup {[send |-> "Ok", json |-> "Err", text |-> t] : t \in {"Ok", "Err"}}

ErrorLine(api_choice, msg) == [src |-> Display(api_choice), msg |-> msg]

\* lines 140-156: the Result of the request and the lines it writes to stderr
Resolve(api_choice, answer) ==
    IF answer.send = "Err"
    THEN [result |-> Err("send"),
          lines |-> SetToBag({ErrorLine(api_choice, "request failed")})]
    ELSE IF answer.json = "Ok"
    THEN [result |-> Ok(answer.info), lines |-> EmptyBag]
    ELSE IF answer.text = "Ok"
    THEN [result |-> Err("json"),
          lines |-> SetToBag({ErrorLine(api_choice,
                                        "failed to deserialize fingerprint request")})]
    \* line 147: `?` returns the text error before eprintln! has printed
    ELSE [result |-> Err("text"), lines |-> EmptyBag]

(***************************************************************************)
(* Join (line 68) and Aggregator (lines 70-115)                            *)
(***************************************************************************)
NumBatches(st) == Cardinality(DOMAIN st) \div 2

\* an inner join_all: the outputs of one service's futures, in batch order
JoinGroup(st, api_choice) == [b \in 1..NumBatches(st) |-> st[<<api_choice, b>>]]

GroupDone(st, api_choice) == \A b \in 1..NumBatches(st) : Resolved(st[<<api_choice, b>>])

\* the outputs of the groups in the order in which the groups completed
JoinedByCompletion(st, done) == [i \in DOMAIN done |-> JoinGroup(st, done[i])]

\* the outer join_all: the outputs in the order of its input futures,
\* whatever the order `done` in which they completed
Joined(st, done) == [i \in DOMAIN ApiOrder |-> JoinGroup(st, ApiOrder[i])]

\* Vec::pop() in place of Vec::remove(0): the last element is taken
VecPop(v, index) ==
    [item |-> v[Len(v)],
     rest |-> SubSeq(v, 1, Len(v) - 1)]

\* Vec::remove(index): the element, and the vector without it
VecRemove(v, index) ==
    [item |-> v[index + 1],
     rest |-> SubSeq(v, 1, index) \o SubSeq(v, index + 2, Len(v))]

\* collect::<Result<Vec<_>, _>>() in place of filter_map(Result::ok): one Err
\* discards the whole group
CollectResult(results) ==
    IF \E i \in DOMAIN results : IsErr(results[i]) THEN <<>>
    ELSE [i \in DOMAIN SelectSeq(results, IsOk) |-> SelectSeq(results, IsOk)[i].info]

\* filter_map(Result::ok)
FilterMapOk(results) ==
    LET oks == SelectSeq(results, IsOk) IN [i \in DOMAIN oks |-> oks[i].info]

\* lines 72-76 and 80-84
ExactMatchesOf(results) ==
    LET infos == FilterMapOk(results)
    IN Flatten([i \in DOMAIN infos |-> infos[i].exact_matches])

\* map(|i| i.id)
Ids(matches) == [i \in DOMAIN matches |-> matches[i].id]

PackagesLine(n) == [text |-> "packages to audit against", args |-> <<n>>]

UniqueLine(n) == [text |-> "unique packages between both APIs", args |-> <<n>>]

ServiceLine(name, n, m) ==
    [text |-> "packages from " \o name \o " with fingerprint matches", args |-> <<n, m>>]

\* lines 70-84: the exact matches of the two groups, and what is left of
\* the joined vector after the two remove(0)
CollectExactMatches(joined) ==
    LET first == VecRemove(joined, 0)
        second == VecRemove(first.rest, 0)
    IN [curse_exact_matches |-> ExactMatchesOf(first.item),
        wowup_exact_matches |-> ExactMatchesOf(second.item),
        responses |-> second.rest]

\* the Curse line printed with the size of the set of all ids
CountLinesOfAllIds(curse, wowup) ==
    LET unique_package_ids == CollectHashSet(Ids(curse \o wowup))
        wowup_package_ids == CollectHashSet(Ids(wowup))
    IN <<UniqueLine(Len(unique_package_ids)),
         ServiceLine("Curse", Len(unique_package_ids), Len(curse)),
         ServiceLine("WowUp", Len(wowup_package_ids), Len(wowup))>>

\* the ids of both services counted without collecting them into a set
CountLinesOfUncollected(curse, wowup) ==
    LET curse_package_ids == CollectHashSet(Ids(curse))
        wowup_package_ids == CollectHashSet(Ids(wowup))
    IN <<UniqueLine(Len(Ids(curse \o wowup))),
         ServiceLine("Curse", Len(curse_package_ids), Len(curse)),
         ServiceLine("WowUp", Len(wowup_package_ids), Len(wowup))>>

\* the two service lines printed in the other order
CountLinesOfSwapped(curse, wowup) ==
    LET unique_package_ids == CollectHashSet(Ids(curse \o wowup))
        curse_package_ids == CollectHashSet(Ids(curse))
        wowup_package_ids == CollectHashSet(Ids(wowup))
    IN <<UniqueLine(Len(unique_package_ids)),
         ServiceLine("WowUp", Len(wowup_package_ids), Len(wowup)),
         ServiceLine("Curse", Len(curse_package_ids), Len(curse))>>

\* lines 86-115: the three count lines
CountLinesOf(curse, wowup) ==
    LET unique_package_ids == CollectHashSet(Ids(curse \o wowup))
        curse_package_ids == CollectHashSet(Ids(curse))
        wowup_package_ids == CollectHashSet(Ids(wowup))
    IN <<UniqueLine(Len(unique_package_ids)),
         ServiceLine("Curse", Len(curse_package_ids), Len(curse)),
         ServiceLine("WowUp", Len(wowup_package_ids), Len(wowup))>>

\* lines 70-115 on the joined responses: the lines main prints
Aggregate(joined) ==
    LET c == CollectExactMatches(joined)
    IN CountLinesOf(c.curse_exact_matches, c.wowup_exact_matches)

(***************************************************************************)
(* main (lines 19-118), one action per step between two suspension points  *)
(***************************************************************************)
NoFutures == [p \in {} |-> Unpolled]

Init ==
    /\ BATCH_SIZE \in BatchSizes
    /\ catalog \in PipelineCatalogs
    /\ pc = "start"
    /\ exit = "none"
    /\ packages = <<>>
    /\ package_fingerprints = <<>>
    /\ batches = <<>>
    /\ status = NoFutures
    /\ requests = <<>>
    /\ completed = <<>>
    /\ responses = <<>>
    /\ curse_exact_matches = <<>>
    /\ wowup_exact_matches = <<>>
    /\ stdout = <<>>
    /\ stderr = EmptyBag

\* `?` in main: the error is returned from main, which reports it on stderr
Fatal(cause) ==
    /\ pc' = "failed"
    /\ exit' = "Err"
    /\ stderr' = stderr (+) SetToBag({[src |-> "main", msg |-> cause]})
    /\ UNCHANGED <<BATCH_SIZE, catalog, packages, package_fingerprints, batches, status,
                   requests, completed, responses, curse_exact_matches,
                   wowup_exact_matches, stdout>>

\* lines 20-23
BuildClientOk ==
    /\ pc = "start"
    /\ pc' = "fetch"
    /\ UNCHANGED <<BATCH_SIZE, catalog, exit, packages, package_fingerprints, batches,
                   status, requests, completed, responses, curse_exact_matches,
                   wowup_exact_matches, stdout, stderr>>

BuildClientErr ==
    /\ pc = "start"
    /\ Fatal("client build failed")

\* lines 25-38: the catalog arrives and decodes
FetchCatalogOk ==
    /\ pc = "fetch"
    /\ packages' = catalog
    /\ stdout' = Append(stdout, PackagesLine(Len(catalog)))
    /\ pc' = "extract"
    /\ UNCHANGED <<BATCH_SIZE, catalog, exit, package_fingerprints, batches, status,
                   requests, completed, responses, curse_exact_matches,
                   wowup_exact_matches, stderr>>

\* the packages line printed before the result of the fetch is looked at
FetchCatalogErrAfterPrint ==
    /\ pc = "fetch"
    /\ \E cause \in {"catalog request failed", "catalog decode failed"} :
          /\ pc' = "failed"
          /\ exit' = "Err"
          /\ stderr' = stderr (+) SetToBag({[src |-> "main", msg |-> cause]})
          /\ stdout' = Append(stdout, PackagesLine(0))
    /\ UNCHANGED <<BATCH_SIZE, catalog, packages, package_fingerprints, batches, status,
                   requests, completed, responses, curse_exact_matches,
                   wowup_exact_matches>>

\* line 36: send_async(..).await? or .json()? fails
FetchCatalogErr ==
    /\ pc = "fetch"
    /\ \E cause \in {"catalog request failed", "catalog decode failed"} : Fatal(cause)

\* lines 40-49
Extractor ==
    /\ pc = "extract"
    /\ package_fingerprints' = ExtractFingerprints(packages)
    /\ pc' = "batch"
    /\ UNCHANGED <<BATCH_SIZE, catalog, exit, packages, batches, status, requests,
                   completed, responses, curse_exact_matches, wowup_exact_matches,
                   stdout, stderr>>

\* lines 51-54
Batcher ==
    /\ pc = "batch"
    /\ batches' = MakeBatches(package_fingerprints, BATCH_SIZE)
    /\ pc' = "fanout"
    /\ UNCHANGED <<BATCH_SIZE, catalog, exit, packages, package_fingerprints, status,
                   requests, completed, responses, curse_exact_matches,
                   wowup_exact_matches, stdout, stderr>>

\* lines 56-66: one future per service and batch; a future does nothing
\* until it is polled
CreateFutures ==
    /\ pc = "fanout"
    /\ status' = [p \in ApiChoice \X (1..Len(batches)) |-> Unpolled]
    /\ pc' = "poll"
    /\ UNCHANGED <<BATCH_SIZE, catalog, exit, packages, package_fingerprints, batches,
                   requests, completed, responses, curse_exact_matches,
                   wowup_exact_matches, stdout, stderr>>

\* the k-th future that the first poll of line 68 reaches: the outer
\* join_all polls the Curse group, then the WowUp group, each in batch order
PairAt(k, n) == <<ApiOrder[((k - 1) \div n) + 1], ((k - 1) % n) + 1>>

\* line 68, first poll, one future: lines 125-138 run up to the await, the
\* request is handed to the client and the future is suspended
Poll ==
    /\ pc = "poll"
    /\ Len(batches) > 0
    /\ LET k == Len(requests) + 1
           p == PairAt(k, Len(batches))
       IN /\ status[p] = Unpolled
          /\ \E fingerprints \in IterationOrders(batches[p[2]]) :
                 requests' = Append(requests,
                                    [by |-> p] @@ FingerprintRequest(p[1], fingerprints))
          /\ status' = [status EXCEPT ![p] = Pending]
          /\ pc' = IF k = 2 * Len(batches) THEN "join" ELSE "poll"
    /\ UNCHANGED <<BATCH_SIZE, catalog, exit, packages, package_fingerprints, batches,
                   completed, responses, curse_exact_matches, wowup_exact_matches,
                   stdout, stderr>>

\* line 68 with no batch: both inner join_all are ready at the first poll
PollEmpty ==
    /\ pc = "poll"
    /\ Len(batches) = 0
    /\ completed' = ApiOrder
    /\ pc' = "join"
    /\ UNCHANGED <<BATCH_SIZE, catalog, exit, packages, package_fingerprints, batches,
                   status, requests, responses, curse_exact_matches,
                   wowup_exact_matches, stdout, stderr>>

\* try_join_all in place of join_all: the first Err completes the group and
\* drops the sibling futures that are still pending
CompleteFailFast(p) ==
    /\ pc = "join"
    /\ status[p] = Pending
    /\ \E answer \in Answers :
          LET r == Resolve(p[1], answer)
          IN /\ status' = [q \in DOMAIN status |->
                              IF q = p THEN r.result
                              ELSE IF IsErr(r.result) /\ q[1] = p[1] /\ status[q] = Pending
                              THEN [tag |-> "Cancelled"]
                              ELSE status[q]]
             /\ stderr' = stderr (+) r.lines
    /\ completed' = IF \A b \in 1..NumBatches(status) : status'[<<p[1], b>>] # Pending
                    THEN Append(completed, p[1])
                    ELSE completed
    /\ UNCHANGED <<BATCH_SIZE, catalog, pc, exit, packages, package_fingerprints,
                   batches, requests, responses, curse_exact_matches,
                   wowup_exact_matches, stdout>>

\* a retry loop around the request: a failed request is sent once more
CompleteWithRetry(p) ==
    /\ pc = "join"
    /\ status[p] = Pending
    /\ \E answer \in Answers :
          LET r == Resolve(p[1], answer)
          IN /\ status' = [status EXCEPT ![p] = IF IsErr(r.result) THEN Pending
                                                ELSE r.result]
             /\ stderr' = stderr (+) r.lines
             /\ requests' = IF IsErr(r.result)
                            THEN Append(requests,
                                        requests[CHOOSE i \in DOMAIN requests :
                                                     requests[i].by = p])
                            ELSE requests
    /\ completed' = IF GroupDone(status', p[1]) THEN Append(completed, p[1])
                    ELSE completed
    /\ UNCHANGED <<BATCH_SIZE, catalog, pc, exit, packages, package_fingerprints,
                   batches, responses, curse_exact_matches, wowup_exact_matches,
                   stdout>>

\* the requests awaited one after the other: a request resolves only after
\* every request issued before it
CompleteInOrder(p) ==
    /\ pc = "join"
    /\ status[p] = Pending
    /\ \A k \in 1..(2 * NumBatches(status)) :
          PairAt(k, NumBatches(status)) = p =>
              \A k2 \in 1..(k - 1) : Resolved(status[PairAt(k2, NumBatches(status))])
    /\ \E answer \in Answers :
          LET r == Resolve(p[1], answer)
          IN /\ status' = [status EXCEPT ![p] = r.result]
             /\ stderr' = stderr (+) r.lines
    /\ completed' = IF GroupDone(status', p[1]) THEN Append(completed, p[1])
                    ELSE completed
    /\ UNCHANGED <<BATCH_SIZE, catalog, pc, exit, packages, package_fingerprints,
                   batches, requests, responses, curse_exact_matches,
                   wowup_exact_matches, stdout>>

\* lines 138-156: the transport answers request p and its future resolves
Complete(p) ==
    /\ pc = "join"
    /\ status[p] = Pending
    /\ \E answer \in Answers :
          LET r == Resolve(p[1], answer)
          IN /\ status' = [status EXCEPT ![p] = r.result]
             /\ stderr' = stderr (+) r.lines
    /\ completed' = IF GroupDone(status', p[1]) THEN Append(completed, p[1])
                    ELSE completed
    /\ UNCHANGED <<BATCH_SIZE, catalog, pc, exit, packages, package_fingerprints,
                   batches, requests, responses, curse_exact_matches,
                   wowup_exact_matches, stdout>>

\* a race in place of the join: ready as soon as one group has completed
SelectReady == Len(completed) >= 1

\* a join over one more future than there are groups, which never completes
JoinReadyAfterExtra == Len(completed) = Len(ApiOrder) + 1

\* line 68: the outer join_all is ready when each of its futures has completed
JoinReady == Len(completed) = Len(ApiOrder)

\* `?` on the joined results: the first Err of a request is returned from main
JoinOrPropagate ==
    /\ pc = "join"
    /\ JoinReady
    /\ IF \E p \in DOMAIN status : IsErr(status[p])
       THEN /\ Fatal("fingerprint request failed")
            /\ UNCHANGED responses
       ELSE /\ responses' = Joined(status, completed)
            /\ pc' = "collect"
            /\ UNCHANGED <<BATCH_SIZE, catalog, exit, packages, package_fingerprints,
                           batches, status, requests, completed, curse_exact_matches,
                           wowup_exact_matches, stdout, stderr>>

\* line 68: the outer join_all is ready and main resumes with its output
Join ==
    /\ pc = "join"
    /\ JoinReady
    /\ responses' = Joined(status, completed)
    /\ pc' = "collect"
    /\ UNCHANGED <<BATCH_SIZE, catalog, exit, packages, package_fingerprints, batches,
                   status, requests, completed, curse_exact_matches,
                   wowup_exact_matches, stdout, stderr>>

\* lines 70-84
Collect ==
    /\ pc = "collect"
    /\ LET c == CollectExactMatches(responses)
       IN /\ curse_exact_matches' = c.curse_exact_matches
          /\ wowup_exact_matches' = c.wowup_exact_matches
          /\ responses' = c.responses
    /\ pc' = "report"
    /\ UNCHANGED <<BATCH_SIZE, catalog, exit, packages, package_fingerprints, batches,
                   status, requests, completed, stdout, stderr>>

\* lines 86-117
Report ==
    /\ pc = "report"
    /\ stdout' = stdout \o CountLinesOf(curse_exact_matches, wowup_exact_matches)
    /\ pc' = "done"
    /\ exit' = "Ok"
    /\ UNCHANGED <<BATCH_SIZE, catalog, packages, package_fingerprints, batches, status,
                   requests, completed, responses, curse_exact_matches,
                   wowup_exact_matches, stderr>>

Next ==
    \/ BuildClientOk
    \/ BuildClientErr
    \/ FetchCatalogOk
    \/ FetchCatalogErr
    \/ Extractor
    \/ Batcher
    \/ CreateFutures
    \/ Poll
    \/ PollEmpty
    \/ \E p \in DOMAIN status : Complete(p)
    \/ Join
    \/ Collect
    \/ Report

Spec == Init /\ [][Next]_vars

\* main is the only task of the executor, so its next step is eventually
\* taken, and the transport eventually answers every request it was handed
\* (with a response or, at the latest when its timeouts expire, an error)
FairSpec == Spec /\ WF_vars(Next)

(***************************************************************************)
(* Extractor + Batcher alone, on the larger catalogs                       *)
(***************************************************************************)
\* the state of main once a catalog of Catalogs has arrived and decoded
BatcherInit ==
    /\ BATCH_SIZE \in BatchSizes
    /\ catalog \in Catalogs
    /\ pc = "extract"
    /\ exit = "none"
    /\ packages = catalog
    /\ package_fingerprints = <<>>
    /\ batches = <<>>
    /\ status = NoFutures
    /\ requests = <<>>
    /\ completed = <<>>
    /\ responses = <<>>
    /\ curse_exact_matches = <<>>
    /\ wowup_exact_matches = <<>>
    /\ stdout = <<PackagesLine(Len(catalog))>>
    /\ stderr = EmptyBag

BatcherNext ==
    \/ Extractor
    \/ Batcher

BatcherSpec == BatcherInit /\ [][BatcherNext]_vars

(***************************************************************************)
(* Vocabulary of the properties                                            *)
(***************************************************************************)
\* every fingerprint that occurs in a catalog, read off the catalog itself
CatalogFingerprints(c) ==
    UNION {UNION {{c[i].latest_files[j].modules[k].fingerprint :
                       k \in DOMAIN c[i].latest_files[j].modules} :
                  j \in DOMAIN c[i].latest_files} :
           i \in DOMAIN c}

NoRepeats(s) == \A i, j \in DOMAIN s : i # j => s[i] # s[j]

Pairs == ApiChoice \X (1..Len(batches))

OtherApi(api_choice) == IF api_choice = "Curse" THEN "WowUp" ELSE "Curse"

\* the count lines printed after the join: unique, Curse, WowUp
CountLines == SubSeq(stdout, 2, Len(stdout))

ServiceLineOf(lines, api_choice) == lines[IF api_choice = "Curse" THEN 2 ELSE 3]

MatchesOfApi(api_choice) ==
    IF api_choice = "Curse" THEN curse_exact_matches ELSE wowup_exact_matches

EmptyInfo == [exact_matches |-> <<>>]

OnlyFailure(p) ==
    /\ IsErr(status[p])
    /\ \A q \in DOMAIN status \ {p} : IsOk(status[q])

(***************************************************************************)
(* C1: whatever the catalog and BATCH_SIZE >= 1, the batches together hold *)
(* exactly the fingerprints that occur in the catalog (none dropped, none  *)
(* invented), and no batch holds a fingerprint twice.                      *)
(***************************************************************************)
C1_BatchesCoverCatalog ==
    pc = "fanout" =>
        /\ UNION {ToSet(batches[k]) : k \in DOMAIN batches} = CatalogFingerprints(catalog)
        /\ \A k \in DOMAIN batches : NoRepeats(batches[k])

\* three packages in two batches, the last chunk shorter, and a fingerprint
\* that repeats inside a chunk
C1_Witness ==
    /\ pc = "fanout"
    /\ BATCH_SIZE = 2
    /\ Len(batches) = 2
    /\ batches[2] # <<>>
    /\ Len(Flatten(SubSeq(package_fingerprints, 1, 2))) > Len(batches[1])
    /\ CatalogFingerprints(catalog) = Fingerprints

(***************************************************************************)
(* C2: when exactly one (service, batch) request fails, the other          *)
(* service's line is what it is when that request succeeds (with any       *)
(* response), and every count printed is what the run prints when that     *)
(* request succeeds with an empty list of exact matches.                   *)
(***************************************************************************)
C2_FailureIsolation ==
    pc = "done" =>
        \A p \in DOMAIN status :
            OnlyFailure(p) =>
                /\ \A info \in FingerprintInfo :
                       ServiceLineOf(
                           Aggregate(Joined([status EXCEPT ![p] = Ok(info)],
                                            completed)),
                           OtherApi(p[1]))
                       = ServiceLineOf(CountLines, OtherApi(p[1]))
                /\ Aggregate(Joined([status EXCEPT ![p] = Ok(EmptyInfo)], completed))
                   = CountLines

\* two batches; one WowUp request failed, its sibling and both Curse
\* requests returned matches
C2_Witness ==
    /\ pc = "done"
    /\ Len(batches) = 2
    /\ OnlyFailure(<<"WowUp", 1>>)
    /\ status[<<"WowUp", 2>>].info.exact_matches # <<>>
    /\ status[<<"Curse", 1>>].info.exact_matches # <<>>
    /\ status[<<"Curse", 2>>].info.exact_matches # <<>>

(***************************************************************************)
(* C3: a request that fails leaves every sibling request as it was: a      *)
(* sibling still pending stays pending and can still resolve; once a       *)
(* request has failed, main still gets to the end with every request       *)
(* resolved to its own outcome (given that the transport answers every     *)
(* request); and when main is done the matches of every successful         *)
(* request are among its service's exact matches.                          *)
(***************************************************************************)
C3_FailureStep ==
    \A p \in DOMAIN status :
        (status[p] = Pending /\ IsErr(status'[p])) =>
            \A q \in DOMAIN status \ {p} : status'[q] = status[q]

C3_StillRunning ==
    \A q \in DOMAIN status : (pc = "join" /\ status[q] = Pending) => ENABLED Complete(q)

C3_Contributes ==
    pc = "done" =>
        \A q \in DOMAIN status :
            /\ Resolved(status[q])
            /\ IsOk(status[q]) =>
                   ToSet(status[q].info.exact_matches) \subseteq ToSet(MatchesOfApi(q[1]))

C3_AnyFailed == \E p \in DOMAIN status : IsErr(status[p])

C3_AllResolved == pc = "done" /\ \A p \in DOMAIN status : Resolved(status[p])

C3_NoSiblingAbort ==
    /\ [][C3_FailureStep]_vars
    /\ [](C3_StillRunning /\ C3_Contributes)
    /\ (C3_AnyFailed ~> C3_AllResolved)

\* a request failed and a sibling of the same service, and one of the other
\* service, succeeded with matches
C3_Witness ==
    /\ pc = "done"
    /\ Len(batches) = 2
    /\ IsErr(status[<<"Curse", 1>>])
    /\ IsOk(status[<<"Curse", 2>>])
    /\ curse_exact_matches # <<>>
    /\ IsOk(status[<<"WowUp", 1>>])
    /\ wowup_exact_matches # <<>>

(***************************************************************************)
(* C4: wherever main is past the join (it collects, reports or is done, a  *)
(* count line is printed, or an exact-match list is filled), each of the   *)
(* 2 x (number of batches) requests has a recorded outcome.                *)
(***************************************************************************)
C4_JoinBarrier ==
    (pc \in {"collect", "report", "done"} \/ Len(stdout) > 1 \/ responses # <<>>
        \/ curse_exact_matches # <<>> \/ wowup_exact_matches # <<>>) =>
        /\ DOMAIN status = Pairs
        /\ \A p \in Pairs : Resolved(status[p])
        /\ Cardinality({p \in DOMAIN status : Resolved(status[p])}) = 2 * Len(batches)

\* four requests awaited: two batches, the WowUp group completed first
C4_Witness ==
    /\ pc = "done"
    /\ Len(batches) = 2
    /\ completed = <<"WowUp", "Curse">>
    /\ Len(stdout) = 4

(***************************************************************************)
(* C5: one request per (service, batch) and never a second one, also after *)
(* a failure; once the fan-out has run there are 2N requests, N per        *)
(* service, each to its service's url in its service's body shape and      *)
(* carrying exactly the fingerprints of its batch; an empty catalog sends  *)
(* no fingerprint request.                                                 *)
(***************************************************************************)
C5_OneRequestPerPair ==
    /\ \A i, j \in DOMAIN requests : requests[i].by = requests[j].by => i = j
    /\ \A i \in DOMAIN requests : requests[i].by \in Pairs
    /\ catalog = <<>> => requests = <<>>
    /\ pc \in {"join", "done"} =>
          /\ Len(requests) = 2 * Len(batches)
          /\ \A p \in Pairs :
                \E i \in DOMAIN requests :
                    /\ requests[i].by = p
                    /\ requests[i].uri = fingerprint_url(p[1])
                    /\ requests[i].method = "POST"
                    /\ requests[i].body.json = (IF p[1] = "Curse" THEN "array" ELSE "object")
                    /\ ToSet(requests[i].body.items) = ToSet(batches[p[2]])
                    /\ Len(requests[i].body.items) = Len(batches[p[2]])

\* two batches, a request failed, main is done and four requests were sent
C5_Witness ==
    /\ pc = "done"
    /\ Len(batches) = 2
    /\ \E p \in Pairs : IsErr(status[p])
    /\ Len(requests) = 4

(***************************************************************************)
(* C6: each service has as many error lines on stderr as it has failed     *)
(* requests, whichever way a request failed; successful requests write no  *)
(* error line.                                                             *)
(***************************************************************************)
ErrorLinesOf(api_choice) ==
    CopiesIn(ErrorLine(api_choice, "request failed"), stderr)
    + CopiesIn(ErrorLine(api_choice, "failed to deserialize fingerprint request"), stderr)

FailuresOf(api_choice) ==
    Cardinality({p \in DOMAIN status : p[1] = api_choice /\ IsErr(status[p])})

C6_OneErrorLinePerFailure ==
    \A api_choice \in ApiChoice : ErrorLinesOf(api_choice) = FailuresOf(api_choice)

(***************************************************************************)
(* C7: a run whose catalog request or catalog decode failed has ended with *)
(* Err: nothing is on stdout, nothing was extracted or batched, no future  *)
(* was created, no fingerprint request was sent, and no step follows.      *)
(***************************************************************************)
CatalogFailed ==
    \E cause \in {"catalog request failed", "catalog decode failed"} :
        CopiesIn([src |-> "main", msg |-> cause], stderr) > 0

C7_CatalogFailureIsFatal ==
    /\ CatalogFailed => pc = "failed"
    /\ pc = "failed" =>
          /\ exit = "Err"
          /\ stdout = <<>>
          /\ package_fingerprints = <<>>
          /\ batches = <<>>
          /\ status = NoFutures
          /\ requests = <<>>
          /\ ~ ENABLED Next

\* the catalog of a non-empty server did not decode
C7_Witness ==
    /\ pc = "failed"
    /\ catalog # <<>>
    /\ CopiesIn([src |-> "main", msg |-> "catalog decode failed"], stderr) = 1

(***************************************************************************)
(* C8: once the catalog has arrived and decoded (its line is on stdout),   *)
(* main never returns Err and, until it is done, can always take a step;   *)
(* when done it returned Ok and printed the unique line and both service   *)
(* lines; when every request of both services failed, all counts are 0.    *)
(***************************************************************************)
C8_RecoverableErrorsStayLocal ==
    /\ Len(stdout) >= 1 =>
          /\ exit # "Err"
          /\ pc # "failed"
          /\ pc # "done" => ENABLED Next
    /\ pc = "done" =>
          /\ exit = "Ok"
          /\ Len(stdout) = 4
          /\ stdout[2].text = UniqueLine(0).text
          /\ stdout[3].text = ServiceLine("Curse", 0, 0).text
          /\ stdout[4].text = ServiceLine("WowUp", 0, 0).text
          /\ (\A p \in DOMAIN status : IsErr(status[p])) =>
                 CountLines = <<UniqueLine(0), ServiceLine("Curse", 0, 0),
                                ServiceLine("WowUp", 0, 0)>>

\* two batches, all four requests failed, main is done
C8_Witness ==
    /\ pc = "done"
    /\ exit = "Ok"
    /\ Len(batches) = 2
    /\ \A p \in Pairs : IsErr(status[p])
    /\ Len(stdout) = 4

(***************************************************************************)
(* C9: the service lines report, per service, the number of distinct       *)
(* package ids and the number of exact-match records of its successful     *)
(* requests, and the unique line the number of distinct package ids of     *)
(* both services together.                                                 *)
(***************************************************************************)
OkPairs(api_choice) == {p \in DOMAIN status : p[1] = api_choice /\ IsOk(status[p])}

IdsOfApi(api_choice) ==
    UNION {{status[p].info.exact_matches[i].id :
                i \in DOMAIN status[p].info.exact_matches} :
           p \in OkPairs(api_choice)}

RecordsOfApi(api_choice) ==
    UNION {{<<p, i>> : i \in DOMAIN status[p].info.exact_matches} :
           p \in OkPairs(api_choice)}

C9_AggregationResult ==
    pc = "done" =>
        /\ stdout[2] = UniqueLine(Cardinality(IdsOfApi("Curse") \cup IdsOfApi("WowUp")))
        /\ stdout[3] = ServiceLine("Curse", Cardinality(IdsOfApi("Curse")),
                                   Cardinality(RecordsOfApi("Curse")))
        /\ stdout[4] = ServiceLine("WowUp", Cardinality(IdsOfApi("WowUp")),
                                   Cardinality(RecordsOfApi("WowUp")))

\* two packages in one batch, Curse matches package 1 only and WowUp
\* package 2 only: unique 2, Curse 1, WowUp 1
C9_Witness ==
    /\ pc = "done"
    /\ Len(packages) = 2
    /\ Len(batches) = 1
    /\ IdsOfApi("Curse") = {1}
    /\ IdsOfApi("WowUp") = {2}
    /\ stdout[2].args = <<2>>
    /\ stdout[3].args[1] = 1
    /\ stdout[4].args[1] = 1

(***************************************************************************)
(* C10: the counts printed do not depend on the order of completion: with  *)
(* the outcomes of all requests fixed, the lines are the ones obtained     *)
(* with the two groups completed in either order and with the outcomes of  *)
(* each group taken in any order of its batches.                           *)
(***************************************************************************)
PermuteSeq(s, f) == [i \in DOMAIN s |-> s[f[i]]]

C10_ArrivalOrderImmaterial ==
    pc = "done" =>
        \A done \in IterationOrders(ApiOrder) :
            \A f, g \in Permutations(1..Len(batches)) :
                LET joined == Joined(status, done)
                IN Aggregate(<<PermuteSeq(joined[1], f), PermuteSeq(joined[2], g)>>)
                   = CountLines

\* the WowUp group completed before the Curse group, the two services and
\* the two batches of Curse answered differently
C10_Witness ==
    /\ pc = "done"
    /\ Len(batches) = 2
    /\ completed = <<"WowUp", "Curse">>
    /\ stdout[3].args # stdout[4].args
    /\ IsOk(status[<<"Curse", 1>>])
    /\ status[<<"Curse", 1>>] # status[<<"Curse", 2>>]

(***************************************************************************)
(* C11: on each service line the number of fingerprint matches is at least *)
(* the number of packages, whatever the responses and failures.            *)
(***************************************************************************)
C11_RawAtLeastDistinct ==
    pc = "done" =>
        \A api_choice \in ApiChoice :
            ServiceLineOf(CountLines, api_choice).args[2]
            >= ServiceLineOf(CountLines, api_choice).args[1]

\* Curse matched the same package in both batches (2 matches, 1 package),
\* WowUp matched one package and one of its requests failed
C11_Witness ==
    /\ pc = "done"
    /\ stdout[3].args = <<1, 2>>
    /\ stdout[4].args = <<1, 1>>
    /\ \E p \in DOMAIN status : p[1] = "WowUp" /\ IsErr(status[p])

(***************************************************************************)
(* C12: the number on the unique line is at most the sum of the package    *)
(* numbers of the two service lines.                                       *)
(***************************************************************************)
C12_UnionBound ==
    pc = "done" =>
        stdout[2].args[1] <= stdout[3].args[1] + stdout[4].args[1]

\* both services matched package 1 only, in both batches: unique 1 < 1 + 1
C12_Witness ==
    /\ pc = "done"
    /\ Len(batches) = 2
    /\ stdout[2].args = <<1>>
    /\ stdout[3].args = <<1, 2>>
    /\ stdout[4].args = <<1, 2>>

(***************************************************************************)
(* Vocabulary of the batching properties                                   *)
(***************************************************************************)
RECURSIVE SumOf(_)
SumOf(s) == IF s = <<>> THEN 0 ELSE Head(s) + SumOf(Tail(s))

Min(a, b) == IF a <= b THEN a ELSE b

\* the positions (from 1) of the packages that chunk k covers
ChunkPositions(k) ==
    {i \in DOMAIN packages : (k - 1) * BATCH_SIZE < i /\ i <= k * BATCH_SIZE}

\* the number of modules of a package, read off the package itself
ModuleCount(p) == SumOf([j \in DOMAIN p.latest_files |-> Len(p.latest_files[j].modules)])

(***************************************************************************)
(* C13 as stated: every batch holds at most BATCH_SIZE fingerprints.       *)
(***************************************************************************)
C13_AtMostBatchSizeFingerprints ==
    \A k \in DOMAIN batches : Len(batches[k]) <= BATCH_SIZE

(***************************************************************************)
(* C13: every batch is bounded by BATCH_SIZE packages, not fingerprints:   *)
(* batch k holds only fingerprints of the packages of chunk k, which are   *)
(* BATCH_SIZE consecutive packages (at least one and at most BATCH_SIZE    *)
(* for the last chunk), so it holds at most as many fingerprints as those  *)
(* packages have modules; every package belongs to a chunk.                *)
(***************************************************************************)
C13_AtMostBatchSizePackages ==
    pc = "fanout" =>
        /\ \A k \in DOMAIN batches :
            /\ ChunkPositions(k) # {}
            /\ k < Len(batches) => Cardinality(ChunkPositions(k)) = BATCH_SIZE
            /\ ToSet(batches[k])
                 \subseteq UNION {CatalogFingerprints(<<packages[i]>>) : i \in ChunkPositions(k)}
            /\ Len(batches[k])
                 <= SumOf([i \in 1..Cardinality(ChunkPositions(k)) |->
                              ModuleCount(packages[(k - 1) * BATCH_SIZE + i])])
        /\ UNION {ChunkPositions(k) : k \in DOMAIN batches} = DOMAIN packages

\* BATCH_SIZE is 1 and the first of three batches holds two fingerprints
C13_Witness ==
    /\ pc = "fanout"
    /\ BATCH_SIZE = 1
    /\ Len(batches) = 3
    /\ Len(batches[1]) = 2
    /\ Len(batches[3]) = 0

(***************************************************************************)
(* C15: the packages are chunked, not the fingerprints: there are          *)
(* ceil(N / BATCH_SIZE) batches for N packages (none for no package);      *)
(* batch k is exactly the set of the fingerprints of the packages at       *)
(* positions (k-1)*BATCH_SIZE+1 .. min(k*BATCH_SIZE, N); every chunk but   *)
(* the last covers BATCH_SIZE packages and the last covers 1..BATCH_SIZE;  *)
(* a fingerprint of two packages in different chunks is in both batches.   *)
(***************************************************************************)
C15_ChunkedByPackages ==
    pc = "fanout" =>
        LET N == Len(packages)
            B == BATCH_SIZE
            First(k) == (k - 1) * B + 1
            Last(k) == Min(k * B, N)
            ChunkIndex(i) == ((i - 1) \div B) + 1
        IN /\ Len(batches) = (N + B - 1) \div B
           /\ \A k \in DOMAIN batches :
                /\ ToSet(batches[k])
                     = UNION {CatalogFingerprints(<<packages[i]>>) : i \in First(k)..Last(k)}
                /\ Last(k) - First(k) + 1 \in 1..B
                /\ k < Len(batches) => Last(k) - First(k) + 1 = B
           /\ \A i, j \in DOMAIN packages :
                ChunkIndex(i) # ChunkIndex(j) =>
                    \A f \in CatalogFingerprints(<<packages[i]>>)
                               \cap CatalogFingerprints(<<packages[j]>>) :
                        /\ f \in ToSet(batches[ChunkIndex(i)])
                        /\ f \in ToSet(batches[ChunkIndex(j)])

\* three packages in two chunks, fingerprint 1 in a package of each chunk
C15_Witness ==
    /\ pc = "fanout"
    /\ BATCH_SIZE = 2
    /\ Len(packages) = 3
    /\ Len(batches) = 2
    /\ 1 \in CatalogFingerprints(<<packages[2]>>) \cap CatalogFingerprints(<<packages[3]>>)
    /\ 1 \in ToSet(batches[1]) \cap ToSet(batches[2])

(***************************************************************************)
(* C16: the Extractor yields one fingerprint list per package, in package  *)
(* order; the list of a package holds the fingerprints of its files in     *)
(* file order and, within a file, in module order, repeats kept; a package *)
(* without files and a file without modules contribute an empty list at    *)
(* their position: no entry is skipped.                                    *)
(***************************************************************************)
C16_ExtractorKeepsOrder ==
    pc \in {"batch", "fanout"} =>
        /\ Len(package_fingerprints) = Len(packages)
        /\ \A i \in DOMAIN packages :
            LET fs == packages[i].latest_files
                Offset(j) == SumOf([j2 \in 1..(j - 1) |-> Len(fs[j2].modules)])
            IN /\ Len(package_fingerprints[i]) = Offset(Len(fs) + 1)
               /\ \A j \in DOMAIN fs : \A k \in DOMAIN fs[j].modules :
                    package_fingerprints[i][Offset(j) + k] = fs[j].modules[k].fingerprint

\* a package whose two files repeat fingerprint 2, a package without files,
\* and a package whose first file has no modules
C16_Witness ==
    /\ pc = "batch"
    /\ Len(packages) = 3
    /\ package_fingerprints[1] = <<2, 1, 2>>
    /\ packages[2].latest_files = <<>>
    /\ package_fingerprints[2] = <<>>
    /\ Len(packages[3].latest_files) = 2
    /\ packages[3].latest_files[1].modules = <<>>
    /\ package_fingerprints[3] = <<1>>

(***************************************************************************)
(* C17: no request waits for another one.  While the requests are issued   *)
(* none has resolved, and when the last one is issued all 2 x (number of   *)
(* batches) requests are pending together; from then on, of any two        *)
(* pending requests each can resolve while the other is still pending.     *)
(***************************************************************************)
C17_AllInFlight ==
    (pc = "poll" /\ pc' = "join" /\ Len(batches) > 0) =>
        /\ DOMAIN status' = Pairs
        /\ \A p \in Pairs : status'[p] = Pending
        /\ Len(requests') = 2 * Len(batches)

C17_IssuedBeforeResolved ==
    pc = "poll" => \A p \in DOMAIN status : ~Resolved(status[p])

C17_EitherFirst ==
    pc = "join" =>
        \A r1, r2 \in DOMAIN status :
            (r1 # r2 /\ status[r1] = Pending /\ status[r2] = Pending) =>
                ENABLED (Complete(r1) /\ status'[r2] = Pending)

C17_NoOrderingDependency ==
    /\ [][C17_AllInFlight]_vars
    /\ [](C17_IssuedBeforeResolved /\ C17_EitherFirst)

\* the request issued last has resolved and the three issued before it are
\* all still pending
C17_Witness ==
    /\ pc = "join"
    /\ Len(batches) = 2
    /\ Resolved(status[<<"WowUp", 2>>])
    /\ \A p \in Pairs \ {<<"WowUp", 2>>} : status[p] = Pending

(***************************************************************************)
(* C18: main is one pass: given that the transport answers every request,  *)
(* every run ends, either failed or done; a run never goes back to an      *)
(* earlier stage, and nothing happens after the end.                       *)
(***************************************************************************)
StageRank(stage) ==
    CASE stage = "start" -> 0
      [] stage = "fetch" -> 1
      [] stage = "extract" -> 2
      [] stage = "batch" -> 3
      [] stage = "fanout" -> 4
      [] stage = "poll" -> 5
      [] stage = "join" -> 6
      [] stage = "collect" -> 7
      [] stage = "report" -> 8
      [] stage \in {"done", "failed"} -> 9

Ended == pc \in {"done", "failed"}

C18_Forward == StageRank(pc') >= StageRank(pc) /\ (Ended => pc' = pc)

C18_SinglePassTerminates ==
    /\ <>Ended
    /\ [][C18_Forward]_vars
    /\ [](Ended => ~ENABLED Next)

\* a run that is done after four requests, one of which failed
C18_Witness ==
    /\ pc = "done"
    /\ exit = "Ok"
    /\ Len(requests) = 4
    /\ \E p \in Pairs : IsErr(status[p])

(***************************************************************************)
(* C19: stdout holds, in this order, the packages line, the unique line,   *)
(* the Curse line and the WowUp line; the packages line is printed before  *)
(* the first request is issued; an error line of a request is printed      *)
(* when the packages line is the only line on stdout.                      *)
(***************************************************************************)
RequestErrorLines(bag) == {l \in BagToSet(bag) : l.src # "main"}

C19_Printed ==
    /\ Len(stdout) <= 4
    /\ Len(stdout) >= 1 => stdout[1] = PackagesLine(Len(packages))
    /\ Len(stdout) >= 2 => /\ Len(stdout) = 4
                           /\ stdout[2].text = UniqueLine(0).text
                           /\ stdout[3].text = ServiceLine("Curse", 0, 0).text
                           /\ stdout[4].text = ServiceLine("WowUp", 0, 0).text
    /\ pc = "done" => Len(stdout) = 4
    /\ requests # <<>> => Len(stdout) >= 1

C19_ErrorLineStep ==
    (\E l \in RequestErrorLines(stderr') : CopiesIn(l, stderr') > CopiesIn(l, stderr)) =>
        /\ Len(stdout) = 1
        /\ stdout' = stdout

C19_Appended ==
    /\ Len(stdout') >= Len(stdout)
    /\ SubSeq(stdout', 1, Len(stdout)) = stdout

C19_OutputOrder ==
    /\ []C19_Printed
    /\ [][C19_ErrorLineStep /\ C19_Appended]_vars

\* all four lines are printed and each service printed an error line
C19_Witness ==
    /\ Len(stdout) = 4
    /\ \A api_choice \in ApiChoice :
           \E l \in RequestErrorLines(stderr) : l.src = Display(api_choice)

(***************************************************************************)
(* C20: the first element removed from the joined responses is the Curse   *)
(* group and the second is the WowUp group, in whatever order the groups   *)
(* completed: the exact matches of a service are those of its own          *)
(* successful requests, in batch order, and the numbers on a service's     *)
(* line count these only.                                                  *)
(***************************************************************************)
OwnMatches(api_choice) ==
    Flatten([b \in 1..Len(batches) |->
                IF IsOk(status[<<api_choice, b>>])
                THEN status[<<api_choice, b>>].info.exact_matches
                ELSE <<>>])

C20_AttributionPreserved ==
    /\ pc = "collect" =>
           /\ Len(responses) = 2
           /\ \A b \in 1..Len(batches) :
                  /\ responses[1][b] = status[<<"Curse", b>>]
                  /\ responses[2][b] = status[<<"WowUp", b>>]
    /\ pc \in {"report", "done"} =>
           /\ curse_exact_matches = OwnMatches("Curse")
           /\ wowup_exact_matches = OwnMatches("WowUp")
    /\ pc = "done" =>
           /\ stdout[3].args[2] = Len(OwnMatches("Curse"))
           /\ stdout[4].args[2] = Len(OwnMatches("WowUp"))
           /\ stdout[3].args[1] = Cardinality(ToSet(Ids(OwnMatches("Curse"))))
           /\ stdout[4].args[1] = Cardinality(ToSet(Ids(OwnMatches("WowUp"))))

\* the WowUp group completed first; Curse matched in both batches and WowUp
\* in none
C20_Witness ==
    /\ pc = "done"
    /\ completed = <<"WowUp", "Curse">>
    /\ Len(curse_exact_matches) = 2
    /\ wowup_exact_matches = <<>>
    /\ \A p \in Pairs : IsOk(status[p])

====
